---- MODULE Spec2Model ----
(***************************************************************************)
(* State-machine model of the atalantabot core:                            *)
(*   - SniperExecutor   (src/sniper/executor.py)  -> specification Spec     *)
(*   - TokenMonitor     (src/sniper/monitor.py)   -> specification SpecMonitor *)
(*   - KumbayaDEX       (src/dex/kumbaya.py)      -> operators used by Spec *)
(*                                                                         *)
(* Units.  ETH amounts held as Python floats (amount_eth, min_liquidity)   *)
(* are integers in centi-ether (0.01 ETH).  On-chain wei amounts are       *)
(* integers in units of 10^14 wei, so one centi-ether is WeiPerCentiEther  *)
(* model-wei.  Gas prices are in gwei.  request_time is in half-seconds,   *)
(* so int(request_time.timestamp()) is request_time \div TicksPerSecond.   *)
(***************************************************************************)
EXTENDS Integers, Sequences, FiniteSets, TLC

\* ------------------------------------------------------------------ bounds
MaxSubmits == 2      \* submit_snipe calls explored in one behaviour
MaxTasks == 2        \* execution-loop tasks created by start_executor
MaxTick == 2         \* clock ticks (half-seconds) explored
MaxEvents == 3       \* launches appended to the monitor cache
MaxMonTasks == 3     \* tasks created by start_monitoring and _subscribe_to_events
MaxMonStarts == 3    \* start_monitoring calls explored in one behaviour
MaxPasses == 2       \* scan passes explored in one behaviour
MaxOverflow == 2     \* entries offered to a cache beyond its capacity
MaxNotifiedEvents == 2   \* events handled while observers are registered

\* ------------------------------------------------------------------ inputs
Users == {7}                          \* one requester: request ids differ by their second
Amounts == {40}                       \* 0.40 ETH; even, so amount * 0.5 is exact
Slippages == {5}
TicksPerSecond == 2
WeiPerCentiEther == 100
GasPrices == {30, 60}                 \* gwei the RPC may report
GasCeilings == {5, 70}                \* gwei passed to set_max_gas_price
Multipliers == {20}                   \* tenths passed to set_priority_fee_multiplier

WETH_ADDRESS == "0xEeee"
ZERO_ADDRESS == "0x0000"

\* tokens on the modelled chain: a deep clean pool and a deep pool whose token
\* returns 85% on a round trip
Tokens == {"0xA1", "0xC3"}

\* chain state answered by the RPC for each token
\*   price          reserve ratio returned by get_token_price (0: no pair / no price)
\*   pair           pair address returned by the factory getPair(token, WETH)
\*   reserve_eth    ETH-side reserve of the pair, in model-wei
\*   out_per_wei    tokens quoted per model-wei by router getAmountsOut (buy)
\*   back_pct       percent of the ETH returned by selling the bought tokens back
\*   symbol         ERC20 symbol
\*   gas            eth.estimate_gas of the swap
Chain ==
  [t \in Tokens |->
     CASE t = "0xA1" -> [price |-> 3, pair |-> "0xP1", reserve_eth |-> 500000,
                         out_per_wei |-> 7, back_pct |-> 98, symbol |-> "AAA", gas |-> 2]
       [] OTHER      -> [price |-> 3, pair |-> "0xP3", reserve_eth |-> 500000,
                         out_per_wei |-> 7, back_pct |-> 85, symbol |-> "CCC", gas |-> 2]]

\* ------------------------------------------------------------------ state
VARIABLES
  \* SniperExecutor fields
  execution_queue,          \* asyncio.Queue of SnipeRequest
  is_executing,
  execution_task,           \* 0 (None) or the id of the last task created
  active_snipes,            \* dict request_id -> SnipeRequest
  snipe_results,            \* dict request_id -> SnipeResult
  max_gas_price,
  priority_fee_multiplier,  \* tenths (12 = 1.2)
  \* the asyncio tasks running _execution_loop
  tasks,
  \* collaborators
  trades,                   \* rows written by database.create_trade
  gas_price,                \* eth.gas_price as the RPC reports it now
  now,                      \* wall clock at the last submission, in half-seconds
  \* history (not read by the program)
  submitted,                \* number of submit_snipe calls so far
  started,                  \* uids in the order their processing started
  cancelled_queued,         \* uids cancelled while queued, until processed
  done,                     \* the last request whose _execute_snipe returned
  \* TokenMonitor fields
  recent_launches,          \* list of TokenLaunch, oldest first
  blacklisted_tokens,
  whitelisted_tokens,
  launch_callbacks,         \* registered observers, in registration order
  \* history of the monitor (not read by the program)
  notified                  \* <<callback, pair_address>> for every callback invocation

VARIABLES
  \* TokenMonitor: the monitoring state
  is_monitoring,
  monitor_task,             \* 0 (None) or the id of the task the field refers to
  mon_tasks,                \* the asyncio tasks of the monitor, by id
  stop_waiting,             \* 0, or the task a stop_monitoring call is awaiting
  \* history of the monitor loop (not read by the program)
  mon_starts,               \* number of start_monitoring calls so far
  stop_returned             \* a stop_monitoring call has returned and no start followed

loopVars == <<is_monitoring, monitor_task, mon_tasks, stop_waiting, mon_starts, stop_returned>>
VARIABLES
  \* MultiDEXScanner fields
  monitor_tokens,           \* list of token addresses
  recent_opportunities,     \* list of ArbitrageOpportunity, oldest first
  \* the _scan_loop task: where it is suspended, and the locals of the pass
  scan,
  \* history of the scanner (not read by the program)
  scan_passes,              \* number of passes begun so far
  added                     \* every opportunity put in the cache since it was last cleared

scanVars == <<monitor_tokens, recent_opportunities, scan, scan_passes, added>>
VARIABLES
  \* a caller of KumbayaDEX.calculate_slippage: its arguments, where it is and
  \* the two results it got
  calc

calcVars == <<calc>>
VARIABLES
  \* the collaborators as the executor finds them
  create_trade_fails,       \* the database raises inside create_trade
  quote_fails,              \* the router's getAmountsOut call raises
  estimate_gas_fails        \* eth.estimate_gas raises

envVars == <<create_trade_fails, quote_fails, estimate_gas_fails>>
restVars == <<loopVars, scanVars, calcVars, envVars>>

execVars == <<execution_queue, is_executing, execution_task, active_snipes,
              snipe_results, max_gas_price, priority_fee_multiplier, tasks,
              trades, gas_price, now, submitted, started, cancelled_queued, done>>
monVars == <<recent_launches, blacklisted_tokens, whitelisted_tokens,
             launch_callbacks, notified>>
vars == <<execVars, monVars, restVars>>

\* ------------------------------------------------------------------ values
MAX_GAS_PRICE == 50
\* "return int(1e10)  # 10 gwei fallback" of _get_optimal_gas_price
FALLBACK_GAS_PRICE == 10
\* the value of gas_price while the eth.gas_price read raises
RpcError == 0 - 1
NoReq == [uid |-> 0]
NoDone == [uid |-> 0]

\* a task that start_executor has not created yet
NoTask == [status |-> "none", cancel |-> FALSE, pc |-> "wait", req |-> NoReq,
           preflight |-> "none", symbol |-> "", path |-> <<>>, min_out |-> 0,
           built |-> FALSE, gas_estimate |-> 0, gas_price |-> 0,
           persisted |-> FALSE,
           \* history: the configuration when the request was dequeued
           begun_max_gas_price |-> 0, begun_multiplier |-> 0]

\* request_id = f"snipe_{user_id}_{int(request_time.timestamp())}"
RequestId(req) == <<"snipe", req.user_id, req.request_time \div TicksPerSecond>>

\* SnipeResult(...) as built on each return path of _execute_snipe
SnipeResult(success, error_message, gas_used, gas_cost) ==
  [success |-> success, transaction_hash |-> "None", error_message |-> error_message,
   gas_used |-> gas_used, gas_cost |-> gas_cost]


Min(a, b) == IF a < b THEN a ELSE b

\* ------------------------------------------------------------ KumbayaDEX
\* Python None for optional numbers and strings
NoneNum == 0 - 1
Truthy(x) == x # NoneNum /\ x # 0

\* class Config (src/config.py) defines no attribute WETH_ADDRESS: evaluating
\* Config.WETH_ADDRESS raises AttributeError
Config_WETH_ADDRESS == "AttributeError"

\* default base_token of get_token_price
BASE_TOKEN == WETH_ADDRESS

\* get_pair_address(self, token_a, token_b): args is the tuple of positional
\* arguments of the call.  A call that does not bind token_b raises TypeError
\* before the coroutine runs.  The factory getPair call is modelled by the
\* chain's answer (the zero address becomes None).
get_pair_address(args) ==
  IF Len(args) # 2 THEN "TypeError"
  ELSE IF args[1] \in Tokens /\ args[2] = BASE_TOKEN
       THEN (IF Chain[args[1]].pair = ZERO_ADDRESS THEN "None" ELSE Chain[args[1]].pair)
       ELSE "None"

\* get_token_price(token_address): reserve ratio, or None without pair
get_token_price(token_address) ==
  LET pair_address == get_pair_address(<<token_address, BASE_TOKEN>>) IN
  IF pair_address = "None" THEN NoneNum ELSE Chain[token_address].price

\* check_liquidity(token_address, min_liquidity_eth): min_liquidity_eth in
\* centi-ether; w3.from_wei(reserve, 'ether') >= min_liquidity_eth compared
\* exactly in model-wei.  Line 243 calls get_pair_address(token_address) with
\* one argument; the TypeError is caught by the except clause (return False).
check_liquidity(token_address, min_liquidity_eth) ==
  LET price == get_token_price(token_address) IN
  IF ~Truthy(price) THEN FALSE
  ELSE LET pair_address == get_pair_address(<<token_address>>) IN
       IF pair_address = "TypeError" THEN FALSE
       ELSE IF pair_address = "None" THEN FALSE
       ELSE Chain[token_address].reserve_eth >= min_liquidity_eth * WeiPerCentiEther

\* a Python argument handed to a contract call: an int, or a list holding one
PyInt(n) == [is_int |-> TRUE, value |-> n]
PyList(n) == [is_int |-> FALSE, value |-> n]

\* get_amounts_out(amount_in, path): the router quote <<in, out>>; an
\* amount_in that is not an int is rejected by the call, which raises and
\* makes get_amounts_out return None (the empty tuple here), as does any
\* other failure of the call
get_amounts_out(amount_in, path) ==
  IF quote_fails \/ ~amount_in.is_int \/ Len(path) # 2 THEN <<>>
  ELSE IF path[1] = WETH_ADDRESS /\ path[2] \in Tokens
       THEN <<amount_in.value, amount_in.value * Chain[path[2]].out_per_wei>>
  ELSE IF path[2] = WETH_ADDRESS /\ path[1] \in Tokens
       THEN <<amount_in.value,
              ((amount_in.value \div Chain[path[1]].out_per_wei) * Chain[path[1]].back_pct) \div 100>>
  ELSE <<>>

\* simulate_honeypot(token_address): {"is_honeypot", "reason"}
simulate_honeypot(token_address) ==
  LET price == get_token_price(token_address)
      buy_amount == 1 * WeiPerCentiEther                   \* to_wei(0.01, 'ether')
  IN
  IF ~Truthy(price) THEN [is_honeypot |-> TRUE, reason |-> "No price available"]
  ELSE IF ~check_liquidity(token_address, 10)
       THEN [is_honeypot |-> TRUE, reason |-> "Insufficient liquidity"]
  ELSE IF get_pair_address(<<token_address>>) = "TypeError"
       THEN [is_honeypot |-> TRUE, reason |-> "Simulation error"]
  ELSE IF get_pair_address(<<token_address>>) = "None"
       THEN [is_honeypot |-> TRUE, reason |-> "No pair exists"]
  ELSE IF Config_WETH_ADDRESS = "AttributeError"
       THEN [is_honeypot |-> TRUE, reason |-> "Simulation error"]
  ELSE LET amounts_out == get_amounts_out(PyList(buy_amount), <<Config_WETH_ADDRESS, token_address>>) IN
       IF amounts_out = <<>> THEN [is_honeypot |-> TRUE, reason |-> "Cannot simulate buy"]
       ELSE LET amounts_back == get_amounts_out(PyInt(amounts_out[Len(amounts_out)]),
                                                <<token_address, Config_WETH_ADDRESS>>) IN
            IF amounts_back = <<>> THEN [is_honeypot |-> TRUE, reason |-> "Cannot simulate sell"]
            ELSE LET eth_received == amounts_back[Len(amounts_back)] IN
                 \* loss_percentage = (buy - received) / buy * 100 > 10
                 IF (buy_amount - eth_received) * 100 > 10 * buy_amount
                 THEN [is_honeypot |-> TRUE, reason |-> "High tax detected"]
                 ELSE [is_honeypot |-> FALSE, reason |-> "Normal behavior"]

\* calculate_slippage(amount_in, path, slippage_percent):
\* int(expected_out * (100 - slippage_percent) / 100), 0 without a quote
calculate_slippage_added(amount_in, path, slippage_percent) == IF get_amounts_out(PyInt(amount_in), path) = <<>> THEN 0 ELSE (get_amounts_out(PyInt(amount_in), path)[2] * (100 + slippage_percent)) \div 100
calculate_slippage(amount_in, path, slippage_percent) ==
  LET amounts == get_amounts_out(PyInt(amount_in), path) IN
  IF amounts = <<>> THEN 0
  ELSE (amounts[Len(amounts)] * (100 - slippage_percent)) \div 100


\* -------------------------------------------------------- SniperExecutor
Keys == DOMAIN active_snipes
InFlight(t) == tasks[t].status = "alive" /\ ~tasks[t].cancel /\ tasks[t].pc # "wait"
QueuedUids == {execution_queue[i].uid : i \in 1..Len(execution_queue)}

\* dict assignment d[k] = v and deletion del d[k]
DictSet(d, k, v) == [x \in (DOMAIN d) \cup {k} |-> IF x = k THEN v ELSE d[x]]
DictDel(d, k) == [x \in (DOMAIN d) \ {k} |-> d[x]]

\* asyncio.Queue() is created with the default maxsize 0: Queue.full() is
\* maxsize > 0 and qsize() >= maxsize
maxsize == 0
QueueFull(q) == maxsize > 0 /\ Len(q) >= maxsize

\* __init__
ExecInit ==
  /\ execution_queue = <<>>
  /\ is_executing = FALSE
  /\ execution_task = 0
  /\ active_snipes = <<>>
  /\ snipe_results = <<>>
  /\ max_gas_price = MAX_GAS_PRICE
  /\ priority_fee_multiplier = 12
  /\ tasks = [t \in 1..MaxTasks |-> NoTask]
  /\ trades = <<>>
  /\ gas_price \in GasPrices
  /\ now = 0
  /\ submitted = 0
  /\ started = <<>>
  /\ cancelled_queued = {}
  /\ done = NoDone

\* the guard of start_executor: "if self.is_executing: return"
AlreadyRunning_unguarded == FALSE
AlreadyRunning == is_executing

\* start_executor
StartExecutor ==
  /\ ~AlreadyRunning
  /\ \E t \in 1..MaxTasks :
       /\ tasks[t].status = "none"
       /\ \A u \in 1..(t - 1) : tasks[u].status # "none"
       /\ is_executing' = TRUE
       /\ execution_task' = t
       /\ tasks' = [tasks EXCEPT ![t] = [NoTask EXCEPT !.status = "alive"]]
  /\ UNCHANGED <<execution_queue, active_snipes, snipe_results, max_gas_price,
                 priority_fee_multiplier, trades, gas_price, now, submitted,
                 started, cancelled_queued, done, monVars, restVars>>

\* stop_executor up to its await: the flag is cleared and the task, if any
\* and not yet finished, is asked to cancel
StopExecutor ==
  /\ is_executing \/ (execution_task # 0 /\ tasks[execution_task].status = "alive"
                      /\ ~tasks[execution_task].cancel)
  /\ is_executing' = FALSE
  /\ tasks' = IF execution_task # 0 /\ tasks[execution_task].status = "alive"
              THEN [tasks EXCEPT ![execution_task].cancel = TRUE]
              ELSE tasks
  /\ UNCHANGED <<execution_queue, execution_task, active_snipes, snipe_results,
                 max_gas_price, priority_fee_multiplier, trades, gas_price, now,
                 submitted, started, cancelled_queued, done, monVars, restVars>>

\* a cancelled task is resumed with CancelledError, which no handler of
\* _execute_snipe catches (except Exception); the loop's handler breaks
CancelDelivered(t) ==
  /\ tasks[t].status = "alive" /\ tasks[t].cancel
  /\ tasks' = [tasks EXCEPT ![t] = [NoTask EXCEPT !.status = "finished", !.cancel = TRUE]]
  /\ UNCHANGED <<execution_queue, is_executing, execution_task, active_snipes,
                 snipe_results, max_gas_price, priority_fee_multiplier, trades,
                 gas_price, now, submitted, started, cancelled_queued,
                 done, monVars, restVars>>

\* submit_snipe(snipe_request); the caller stamps request_time with the wall
\* clock, which never runs backwards between two submissions
SnipeRequest(user_id, token_address, amount_eth, max_slippage_percent, request_time, uid) ==
  [user_id |-> user_id, token_address |-> token_address, amount_eth |-> amount_eth,
   max_slippage_percent |-> max_slippage_percent, wallet_address |-> user_id,
   request_time |-> request_time, uid |-> uid]

\* the queue after put(): the request joins at the tail
QueuePut(q, req) == Append(q, req)

SubmitSnipe ==
  /\ submitted < MaxSubmits
  /\ ~QueueFull(execution_queue)
  /\ \E u \in Users, tok \in Tokens, a \in Amounts, s \in Slippages, time \in now..MaxTick :
       LET req == SnipeRequest(u, tok, a, s, time, submitted + 1)
           request_id == RequestId(req)
       IN
       /\ active_snipes' = DictSet(active_snipes, request_id, req)
       /\ execution_queue' = QueuePut(execution_queue, req)
       /\ now' = time
  /\ submitted' = submitted + 1
  /\ UNCHANGED <<is_executing, execution_task, snipe_results, max_gas_price,
                 priority_fee_multiplier, tasks, trades, gas_price, started,
                 cancelled_queued, done, monVars, restVars>>

\* cancel_snipe(request_id) returning True: the entry leaves active_snipes;
\* the queue is not touched.  (Returning False changes nothing.)
CancelSnipe ==
  /\ \E request_id \in Keys :
       /\ active_snipes' = DictDel(active_snipes, request_id)
       /\ cancelled_queued' =
            IF active_snipes[request_id].uid \in QueuedUids
            THEN cancelled_queued \cup {active_snipes[request_id].uid}
            ELSE cancelled_queued
  /\ UNCHANGED <<execution_queue, is_executing, execution_task, snipe_results,
                 max_gas_price, priority_fee_multiplier, tasks, trades, gas_price,
                 now, submitted, started, done, monVars, restVars>>

\* get_snipe_status(request_id)
NotFound == [found |-> FALSE]
get_snipe_status_unguarded(request_id) == IF request_id \in DOMAIN snipe_results THEN [found |-> TRUE, result |-> snipe_results[request_id]] ELSE [found |-> FALSE, raised |-> "KeyError"]
get_snipe_status(request_id) ==
  IF request_id \in DOMAIN snipe_results
  THEN [found |-> TRUE, result |-> snipe_results[request_id]]
  ELSE NotFound

\* get_execution_stats(): success_rate is kept as the fraction it is computed from
get_execution_stats ==
  LET total_snipes == Cardinality(DOMAIN snipe_results)
      successful_snipes == Cardinality({k \in DOMAIN snipe_results : snipe_results[k].success})
  IN [total_snipes |-> total_snipes, successful_snipes |-> successful_snipes,
      success_rate |-> IF total_snipes > 0
                       THEN [num |-> successful_snipes, den |-> total_snipes]
                       ELSE [num |-> 0, den |-> 1],
      is_executing |-> is_executing, queue_size |-> Len(execution_queue)]

\* ----------------------------------------------- _execution_loop / _execute_snipe
\* What one segment of _execute_snipe (the code between two awaits) does:
\*   tk      the task's locals afterwards
\*   ret     "" while _execute_snipe goes on, else the return path taken
\*   result  the SnipeResult returned on that path
\*   trade   rows passed to database.create_trade
\*   store   <<request_id, SnipeResult>> pairs assigned into snipe_results
NoResult == [success |-> FALSE]
Cont(tk, pc) ==
  [tk |-> [tk EXCEPT !.pc = pc], ret |-> "", result |-> NoResult,
   trade |-> <<>>, store |-> <<>>]
Ret(tk, outcome, result) ==
  [tk |-> tk, ret |-> outcome, result |-> result, trade |-> <<>>, store |-> <<>>]

\* lines 155-165: "if not await self._pre_execution_checks(...)": the result is
\* returned to the loop, which discards it
PreflightFailed_stored(tk) == [Ret([tk EXCEPT !.preflight = "failed"], "rejected", SnipeResult(FALSE, "Pre-execution checks failed", NoneNum, NoneNum)) EXCEPT !.store = <<<<RequestId(tk.req), SnipeResult(FALSE, "Pre-execution checks failed", NoneNum, NoneNum)>>>>]
PreflightFailed(tk) ==
  Ret([tk EXCEPT !.preflight = "failed"], "rejected",
      SnipeResult(FALSE, "Pre-execution checks failed", NoneNum, NoneNum))

\* _pre_execution_checks, liquidity check (min_liquidity_eth = amount_eth * 0.5)
PreExecutionLiquidity_persistsEarly(tk) ==
  IF ~check_liquidity(tk.req.token_address, tk.req.amount_eth \div 2)
  THEN [PreflightFailed(tk) EXCEPT !.trade = <<[uid |-> tk.req.uid, user_id |-> tk.req.user_id,
          token_address |-> tk.req.token_address, token_symbol |-> "",
          trade_type |-> "snipe", amount_in |-> tk.req.amount_eth, gas_used |-> 0,
          gas_cost |-> 0, tx_hash |-> "pending", status |-> "pending", created_at |-> now]>>]
  ELSE Cont(tk, "honeypot")
PreExecutionLiquidity(tk) ==
  IF ~check_liquidity(tk.req.token_address, tk.req.amount_eth \div 2)
  THEN PreflightFailed(tk)
  ELSE Cont(tk, "honeypot")

\* _pre_execution_checks, honeypot check
PreExecutionHoneypot(tk) ==
  IF simulate_honeypot(tk.req.token_address).is_honeypot
  THEN PreflightFailed(tk)
  ELSE Cont(tk, "gas")

\* _pre_execution_checks, gas price check; then get_token_info is awaited
PreExecutionGas(tk) ==
  IF gas_price = RpcError
  THEN PreflightFailed(tk)                  \* except Exception: return False
  ELSE IF gas_price > max_gas_price
  THEN PreflightFailed(tk)
  ELSE Cont([tk EXCEPT !.preflight = "passed"], "token_info")

\* lines 168-188: token info, amount_in_wei, path
ExecTokenInfo(tk) ==
  LET token_info == Chain[tk.req.token_address].symbol IN
  IF token_info = ""
  THEN Ret(tk, "no_token_info", SnipeResult(FALSE, "Failed to get token info", NoneNum, NoneNum))
  ELSE IF Config_WETH_ADDRESS = "AttributeError"
  THEN Ret(tk, "exception", SnipeResult(FALSE, "AttributeError", NoneNum, NoneNum))
  ELSE Cont([tk EXCEPT !.symbol = token_info,
                       !.path = <<Config_WETH_ADDRESS, tk.req.token_address>>], "slippage")

\* build_swap_transaction(amount_in, amount_out_min, path, to_address)
EmptyTx == [value |-> 0]
build_swap_transaction(amount_in, amount_out_min, path, to_address) ==
  IF Len(path) = 2
  THEN [value |-> amount_in, amount_out_min |-> amount_out_min, path |-> path,
        to |-> to_address]
  ELSE EmptyTx

\* lines 186-208: min_out, the unsigned transaction; estimate_gas is awaited
ExecBuild(tk) ==
  LET amount_in_wei == tk.req.amount_eth * WeiPerCentiEther
      path == tk.path
      min_out == calculate_slippage(amount_in_wei, path, tk.req.max_slippage_percent)
      tx_data == build_swap_transaction(amount_in_wei, min_out, path, tk.req.wallet_address)
  IN
  IF tx_data = EmptyTx
  THEN Ret(tk, "build_failed", SnipeResult(FALSE, "Failed to build transaction", NoneNum, NoneNum))
  ELSE Cont([tk EXCEPT !.min_out = min_out, !.built = TRUE], "estimate_gas")

\* line 208: gas_estimate; _get_optimal_gas_price is awaited
\* (a raise is caught by "except Exception" at line 260)
ExecEstimateGas(tk) ==
  IF estimate_gas_fails
  THEN Ret(tk, "exception", SnipeResult(FALSE, "Exception", NoneNum, NoneNum))
  ELSE Cont([tk EXCEPT !.gas_estimate = Chain[tk.req.token_address].gas], "optimal_gas")

\* _get_optimal_gas_price: min(int(base * multiplier), max_gas_price); when
\* the gas price read raises, the except clause returns the fallback
get_optimal_gas_price(base_gas_price) ==
  IF base_gas_price = RpcError THEN FALLBACK_GAS_PRICE
  ELSE LET optimal_gas_price == (base_gas_price * priority_fee_multiplier) \div 10 IN
       IF optimal_gas_price < max_gas_price THEN optimal_gas_price ELSE max_gas_price

\* lines 209-237: gas price set on the transaction; create_trade is awaited
ExecOptimalGas(tk) ==
  Cont([tk EXCEPT !.gas_price = get_optimal_gas_price(gas_price)], "persist")

\* database.create_trade(trade): the rows written; its own "except Exception"
\* logs a failure and returns None, so nothing is raised to the caller
create_trade_reraises(trade) == [raised |-> create_trade_fails, rows |-> IF create_trade_fails THEN <<>> ELSE <<trade>>]
create_trade(trade) ==
  [raised |-> FALSE, rows |-> IF create_trade_fails THEN <<>> ELSE <<trade>>]

\* lines 218-258: the pending Trade row, the result stored under the request id
ExecPersist(tk) ==
  LET result == SnipeResult(TRUE, "None", tk.gas_estimate, tk.gas_estimate * tk.gas_price)
      trade == [uid |-> tk.req.uid, user_id |-> tk.req.user_id,
                token_address |-> tk.req.token_address, token_symbol |-> tk.symbol,
                trade_type |-> "snipe", amount_in |-> tk.req.amount_eth,
                gas_used |-> tk.gas_estimate, gas_cost |-> tk.gas_estimate * tk.gas_price,
                tx_hash |-> "pending", status |-> "pending", created_at |-> now]
      created == create_trade(trade)
  IN IF created.raised
     THEN Ret(tk, "exception", SnipeResult(FALSE, "Exception", NoneNum, NoneNum))
     ELSE [tk |-> [tk EXCEPT !.persisted = TRUE], ret |-> "prepared", result |-> result,
           trade |-> created.rows, store |-> <<<<RequestId(tk.req), result>>>>]

Segment(tk) ==
  CASE tk.pc = "liquidity"    -> PreExecutionLiquidity(tk)
    [] tk.pc = "honeypot"     -> PreExecutionHoneypot(tk)
    [] tk.pc = "gas"          -> PreExecutionGas(tk)
    [] tk.pc = "token_info"   -> ExecTokenInfo(tk)
    [] tk.pc = "slippage"     -> ExecBuild(tk)
    [] tk.pc = "estimate_gas" -> ExecEstimateGas(tk)
    [] tk.pc = "optimal_gas"  -> ExecOptimalGas(tk)
    [] OTHER                  -> ExecPersist(tk)

\* execution_queue.get(): the item handed to the loop and the queue left
QueueGet_last(q) == [item |-> q[Len(q)], rest |-> SubSeq(q, 1, Len(q) - 1)]
QueueGet(q) == [item |-> Head(q), rest |-> Tail(q)]

\* _execution_loop: "while self.is_executing", wait_for(queue.get()) returns a
\* request and _execute_snipe starts (a timeout on the empty queue is a
\* "continue" that changes nothing)
LoopGet(t) ==
  /\ tasks[t].status = "alive" /\ ~tasks[t].cancel /\ tasks[t].pc = "wait"
  /\ is_executing
  /\ execution_queue # <<>>
  /\ LET got == QueueGet(execution_queue) IN
       /\ execution_queue' = got.rest
       /\ tasks' = [tasks EXCEPT ![t] = [@ EXCEPT !.pc = "liquidity", !.req = got.item,
                                                  !.begun_max_gas_price = max_gas_price,
                                                  !.begun_multiplier = priority_fee_multiplier]]
       /\ started' = Append(started, got.item.uid)
  /\ UNCHANGED <<is_executing, execution_task, active_snipes, snipe_results,
                 max_gas_price, priority_fee_multiplier, trades, gas_price, now,
                 submitted, cancelled_queued, done, monVars, restVars>>

\* _execution_loop after _execute_snipe has returned on any path: "while
\* self.is_executing" is tested again
LoopAfter_crashes(outcome) == IF outcome = "exception" THEN "finished" ELSE IF is_executing THEN "alive" ELSE "finished"
LoopAfter(outcome) == IF is_executing THEN "alive" ELSE "finished"

\* one segment of _execute_snipe; on return the loop tests is_executing again
ExecuteSnipeStep(t) ==
  /\ InFlight(t)
  /\ LET e == Segment(tasks[t]) IN
       /\ trades' = trades \o e.trade
       /\ snipe_results' = IF e.store = <<>> THEN snipe_results
                           ELSE DictSet(snipe_results, e.store[1][1], e.store[1][2])
       /\ IF e.ret = ""
          THEN /\ tasks' = [tasks EXCEPT ![t] = e.tk]
               /\ UNCHANGED done
          ELSE /\ tasks' = [tasks EXCEPT ![t] =
                              [NoTask EXCEPT !.status = LoopAfter(e.ret)]]
               /\ done' = [uid |-> e.tk.req.uid, request_id |-> RequestId(e.tk.req),
                           req |-> e.tk.req, outcome |-> e.ret, result |-> e.result,
                           preflight |-> e.tk.preflight, gas_ok |-> (gas_price <= max_gas_price),
                           built |-> e.tk.built, persisted |-> e.tk.persisted]
       /\ cancelled_queued' = IF e.ret = "" THEN cancelled_queued
                              ELSE cancelled_queued \ {e.tk.req.uid}
  /\ UNCHANGED <<execution_queue, is_executing, execution_task, active_snipes,
                 max_gas_price, priority_fee_multiplier, gas_price, now, submitted,
                 started, monVars, restVars>>

\* ----------------------------------------------------------- TokenMonitor
max_cache_size == 100

\* addresses seen in PairCreated events, in the letter cases they may arrive in
EventAddresses == {"0xEeee", "0xeeee", "0xA1", "0xa1"}
PairAddresses == {"0xP1", "0xP2"}

\* str.lower() on an address
Lower(a) ==
  CASE a = "0xEeee" -> "0xeeee"
    [] a = "0xA1"   -> "0xa1"
    [] a = "0xC3"   -> "0xc3"
    [] a = "0xP1"   -> "0xp1"
    [] a = "0xP2"   -> "0xp2"
    [] OTHER        -> a

\* __init__
MonInit ==
  /\ recent_launches = <<>>
  /\ blacklisted_tokens = {}
  /\ whitelisted_tokens = {}
  /\ launch_callbacks = <<>>
  /\ notified = <<>>

\* _should_process_token(token_address)
should_process_token_caseSensitive(token_address) == token_address \notin blacklisted_tokens /\ (whitelisted_tokens # {} => token_address \in whitelisted_tokens)
should_process_token(token_address) ==
  IF Lower(token_address) \in {Lower(t) : t \in blacklisted_tokens} THEN FALSE
  ELSE IF whitelisted_tokens # {}
          /\ Lower(token_address) \notin {Lower(t) : t \in whitelisted_tokens}
       THEN FALSE
  ELSE TRUE

\* TokenLaunch(...); the wall-clock timestamp is left out
TokenLaunch(token_address, token0, token1, pair_address, all_pairs_length, block_number, transaction_hash) ==
  [token_address |-> token_address, token0 |-> token0, token1 |-> token1,
   pair_address |-> pair_address, all_pairs_length |-> all_pairs_length,
   block_number |-> block_number, transaction_hash |-> transaction_hash]

\* observers that may be registered; calling one named "..._raises" raises an
\* Exception
Callbacks == {"sync_raises", "async_raises", "sync_ok"}
Raises(callback) == callback \in {"sync_raises", "async_raises"}

\* _notify_callbacks(launch): every registered callback is invoked in order;
\* the try/except inside the loop catches what a callback raises, so the loop
\* goes on to the next callback
notify_callbacks_stopAtRaise(launch) == [i \in {j \in 1..Len(launch_callbacks) : \A k \in 1..(j - 1) : ~Raises(launch_callbacks[k])} |-> <<launch_callbacks[i], launch.pair_address>>]
notify_callbacks(launch) ==
  [i \in 1..Len(launch_callbacks) |-> <<launch_callbacks[i], launch.pair_address>>]

\* lines 180-183: append, then keep the last max_cache_size entries
CacheAppend(cache, launch) ==
  LET appended == Append(cache, launch) IN
  IF Len(appended) > max_cache_size
  THEN SubSeq(appended, Len(appended) - max_cache_size + 1, Len(appended))
  ELSE appended

\* _handle_pair_created_event(event), the event's token0, token1 and pair
\* drawn from the given sets
PairCreated(token0s, token1s, pairs) ==
  /\ \E token0 \in token0s, token1 \in token1s, pair \in pairs :
       LET weth_address == WETH_ADDRESS
           standard == Lower(token0) = Lower(weth_address) \/ Lower(token1) = Lower(weth_address)
           new_token_address == IF Lower(token0) = Lower(weth_address) THEN token1 ELSE token0
           launch == TokenLaunch(new_token_address, token0, token1, pair, 1, 1, "0xT1")
       IN
       IF standard /\ should_process_token(new_token_address)
       THEN /\ recent_launches' = CacheAppend(recent_launches, launch)
            /\ notified' = notified \o notify_callbacks(launch)
       ELSE UNCHANGED <<recent_launches, notified>>
  /\ UNCHANGED <<blacklisted_tokens, whitelisted_tokens, launch_callbacks, execVars, restVars>>

HandlePairCreated ==
  /\ Len(recent_launches) < MaxEvents
  /\ PairCreated(EventAddresses, EventAddresses, PairAddresses)

\* simulate_launch_detection(token_address), token_address drawn from the
\* given set
SimulateLaunch(addresses) ==
  /\ \E token_address \in addresses :
       LET launch == TokenLaunch(token_address, WETH_ADDRESS, token_address,
                                 ZERO_ADDRESS, 1, 12345, "0x0000") IN
       /\ recent_launches' = Append(recent_launches, launch)
       /\ notified' = notified \o notify_callbacks(launch)
  /\ UNCHANGED <<blacklisted_tokens, whitelisted_tokens, launch_callbacks, execVars, restVars>>

SimulateLaunchDetection ==
  /\ Len(recent_launches) < MaxEvents
  /\ SimulateLaunch(EventAddresses)

\* TokenMonitor.clear_cache()
MonitorClearCache ==
  /\ recent_launches # <<>>
  /\ recent_launches' = <<>>
  /\ UNCHANGED <<blacklisted_tokens, whitelisted_tokens, launch_callbacks, notified,
                 execVars, restVars>>

\* get_recent_launches(limit): recent_launches[-limit:]
get_recent_launches(limit) ==
  IF limit = 0 \/ limit >= Len(recent_launches) THEN recent_launches
  ELSE SubSeq(recent_launches, Len(recent_launches) - limit + 1, Len(recent_launches))

\* add_blacklisted_token / remove_blacklisted_token(token_address)
AddBlacklistedToken(addresses) ==
  /\ \E token_address \in addresses :
       blacklisted_tokens' = blacklisted_tokens \cup {Lower(token_address)}
  /\ UNCHANGED <<recent_launches, whitelisted_tokens, launch_callbacks, notified,
                 execVars, restVars>>
RemoveBlacklistedToken(addresses) ==
  /\ \E token_address \in addresses :
       blacklisted_tokens' = blacklisted_tokens \ {Lower(token_address)}
  /\ UNCHANGED <<recent_launches, whitelisted_tokens, launch_callbacks, notified,
                 execVars, restVars>>

\* add_whitelisted_token / remove_whitelisted_token(token_address)
AddWhitelistedToken(addresses) ==
  /\ \E token_address \in addresses :
       whitelisted_tokens' = whitelisted_tokens \cup {Lower(token_address)}
  /\ UNCHANGED <<recent_launches, blacklisted_tokens, launch_callbacks, notified,
                 execVars, restVars>>
RemoveWhitelistedToken(addresses) ==
  /\ \E token_address \in addresses :
       whitelisted_tokens' = whitelisted_tokens \ {Lower(token_address)}
  /\ UNCHANGED <<recent_launches, blacklisted_tokens, launch_callbacks, notified,
                 execVars, restVars>>

\* add_launch_callback(callback): append
AddLaunchCallback(callbacks) ==
  /\ \E callback \in callbacks :
       launch_callbacks' = Append(launch_callbacks, callback)
  /\ UNCHANGED <<recent_launches, blacklisted_tokens, whitelisted_tokens, notified,
                 execVars, restVars>>

\* remove_launch_callback(callback): list.remove of the first occurrence
RemoveLaunchCallback(callbacks) ==
  /\ \E i \in 1..Len(launch_callbacks) :
       /\ launch_callbacks[i] \in callbacks
       /\ \A j \in 1..(i - 1) : launch_callbacks[j] # launch_callbacks[i]
       /\ launch_callbacks' = SubSeq(launch_callbacks, 1, i - 1)
                                \o SubSeq(launch_callbacks, i + 1, Len(launch_callbacks))
  /\ UNCHANGED <<recent_launches, blacklisted_tokens, whitelisted_tokens, notified,
                 execVars, restVars>>

\* events filtered by the two lists: pairs of WETH with a token written in
\* either letter case or with a second token, one observer registered
FilterAddresses == {"0xA1", "0xa1", "0xC3"}
NextFilters ==
  \/ Len(recent_launches) < MaxEvents /\ PairCreated({WETH_ADDRESS}, FilterAddresses, {"0xP1"})
  \/ AddBlacklistedToken(FilterAddresses)
  \/ RemoveBlacklistedToken(FilterAddresses)
  \/ AddWhitelistedToken(FilterAddresses)
  \/ RemoveWhitelistedToken(FilterAddresses)
  \/ launch_callbacks = <<>> /\ AddLaunchCallback({"sync_ok"})

\* events notified to observers, each observer registered at most once
NextCallbacks ==
  \/ Len(recent_launches) < MaxNotifiedEvents /\ PairCreated({WETH_ADDRESS}, {"0xA1"}, PairAddresses)
  \/ AddLaunchCallback({c \in Callbacks : \A i \in 1..Len(launch_callbacks) : launch_callbacks[i] # c})
  \/ RemoveLaunchCallback(Callbacks)

\* ------------------------------------------ TokenMonitor: start, stop, loop
NoMonTask == [kind |-> "none", status |-> "none", cancel |-> FALSE]
FreeMonTasks == {t \in 1..MaxMonTasks : mon_tasks[t].kind = "none"}
NewMonTask == CHOOSE t \in FreeMonTasks : \A u \in FreeMonTasks : t <= u
Pending(t) == mon_tasks[t].status = "pending"

\* __init__, lines 60-62
LoopInit ==
  /\ is_monitoring = FALSE
  /\ monitor_task = 0
  /\ mon_tasks = [t \in 1..MaxMonTasks |-> NoMonTask]
  /\ stop_waiting = 0
  /\ mon_starts = 0
  /\ stop_returned = FALSE

\* the guard of start_monitoring: "if self.is_monitoring: return"
MonitorAlreadyRunning_unguarded == FALSE
MonitorAlreadyRunning == is_monitoring

\* start_monitoring
StartMonitoring ==
  /\ mon_starts < MaxMonStarts
  /\ mon_starts' = mon_starts + 1
  /\ IF MonitorAlreadyRunning
     THEN UNCHANGED <<is_monitoring, monitor_task, mon_tasks, stop_returned>>
     ELSE /\ FreeMonTasks # {}
          /\ is_monitoring' = TRUE
          /\ monitor_task' = NewMonTask
          /\ mon_tasks' = [mon_tasks EXCEPT ![NewMonTask] =
                             [kind |-> "loop", status |-> "pending", cancel |-> FALSE]]
          /\ stop_returned' = FALSE
  /\ UNCHANGED <<stop_waiting, execVars, monVars, scanVars, calcVars, envVars>>

\* stop_monitoring up to "await self.monitor_task": the flag is cleared and
\* the task the field refers to is cancelled; awaiting a task that is already
\* done returns at once (websocket_connection is never set)
StopMonitoring ==
  /\ stop_waiting = 0
  /\ is_monitoring \/ (monitor_task # 0 /\ Pending(monitor_task))
  /\ is_monitoring' = FALSE
  /\ IF monitor_task # 0 /\ Pending(monitor_task)
     THEN /\ mon_tasks' = [mon_tasks EXCEPT ![monitor_task].cancel = TRUE]
          /\ stop_waiting' = monitor_task
          /\ UNCHANGED stop_returned
     ELSE /\ stop_returned' = TRUE
          /\ UNCHANGED <<mon_tasks, stop_waiting>>
  /\ UNCHANGED <<monitor_task, mon_starts, execVars, monVars, scanVars, calcVars, envVars>>

\* stop_monitoring after the awaited task has ended
StopMonitoringReturns ==
  /\ stop_waiting # 0
  /\ ~Pending(stop_waiting)
  /\ stop_waiting' = 0
  /\ stop_returned' = ~is_monitoring
  /\ UNCHANGED <<is_monitoring, monitor_task, mon_tasks, mon_starts, execVars, monVars, scanVars, calcVars, envVars>>

\* a cancelled task is resumed with CancelledError at its await and ends
MonitorCancelDelivered(t) ==
  /\ Pending(t) /\ mon_tasks[t].cancel
  /\ mon_tasks' = [mon_tasks EXCEPT ![t].status = "done"]
  /\ UNCHANGED <<is_monitoring, monitor_task, stop_waiting, mon_starts, stop_returned,
                 execVars, monVars, scanVars, calcVars, envVars>>

\* _monitor_loop, one evaluation of "while self.is_monitoring" (on the first
\* run of the task or when the backoff sleep ends).  An iteration calls
\* _subscribe_to_events, which creates the _watch_events task and stores it in
\* monitor_task unless create_filter raises; self._process_events does not
\* exist, so the iteration always ends in the except clause's sleep(5).
MonitorLoopStep(t) ==
  /\ mon_tasks[t].kind = "loop" /\ Pending(t) /\ ~mon_tasks[t].cancel
  /\ IF ~is_monitoring
     THEN /\ mon_tasks' = [mon_tasks EXCEPT ![t].status = "done"]
          /\ UNCHANGED monitor_task
     ELSE \/ /\ FreeMonTasks # {}
             /\ mon_tasks' = [mon_tasks EXCEPT ![NewMonTask] =
                                [kind |-> "watch", status |-> "pending", cancel |-> FALSE]]
             /\ monitor_task' = NewMonTask
          \/ UNCHANGED <<mon_tasks, monitor_task>>
  /\ UNCHANGED <<is_monitoring, stop_waiting, mon_starts, stop_returned, execVars, monVars, scanVars, calcVars, envVars>>

\* _watch_events ends: the event stream raises (caught and logged), or an
\* event arrives while is_monitoring is false
WatchEventsEnds(t) ==
  /\ mon_tasks[t].kind = "watch" /\ Pending(t) /\ ~mon_tasks[t].cancel
  /\ mon_tasks' = [mon_tasks EXCEPT ![t].status = "done"]
  /\ UNCHANGED <<is_monitoring, monitor_task, stop_waiting, mon_starts, stop_returned,
                 execVars, monVars, scanVars, calcVars, envVars>>

NextMonitorLoop ==
  \/ StartMonitoring
  \/ StopMonitoring
  \/ StopMonitoringReturns
  \/ \E t \in 1..MaxMonTasks : MonitorCancelDelivered(t)
  \/ \E t \in 1..MaxMonTasks : MonitorLoopStep(t)
  \/ \E t \in 1..MaxMonTasks : WatchEventsEnds(t)

\* the cache filled to its capacity by events of one pair, then events and
\* simulated detections mixed (at most two simulated launches cached at a time)
FillPairCreated ==
  /\ Len(recent_launches) < max_cache_size + MaxOverflow
  /\ PairCreated({WETH_ADDRESS}, {"0xA1"}, {"0xP1"})
FillSimulateLaunch ==
  /\ Len(recent_launches) >= max_cache_size - MaxOverflow
  /\ Len(recent_launches) < max_cache_size + MaxOverflow
  /\ Cardinality({i \in 1..Len(recent_launches) :
                     recent_launches[i].pair_address = ZERO_ADDRESS}) < 2
  /\ SimulateLaunch({"0xA1"})
NextLaunchCache ==
  \/ FillPairCreated
  \/ FillSimulateLaunch

\* -------------------------------------------------------- MultiDEXScanner
\* Units: quotes are prices in milli-ETH per token, profits in micro-ETH.
scanner_max_cache_size == 100
DEFAULT_GAS_LIMIT == 300000
\* Config.MIN_PROFIT_THRESHOLD = 0.005, in thousandths
MIN_PROFIT_THRESHOLD == 5
\* "is_executable = net_profit > 0.001", in micro-ETH
MIN_EXECUTABLE_PROFIT == 1000
\* "trade_amount = 0.1": micro-ETH of notional per milli-ETH of price
TRADE_AMOUNT == 100

\* tokens given to add_monitor_token / remove_monitor_token
ScanTokens == {WETH_ADDRESS, "0xA1"}
\* what dex_a.get_token_price and dex_b.get_token_price answer (NoneNum: None)
QuotesA == {1000, 1200}
QuotesB == {NoneNum, 1000, 1050}
\* asyncio.gather(..., return_exceptions=True) hands back the exception a
\* price query raised
QuoteRaised == 0 - 2

\* the locals of a pass: price_a and price_b are the quotes last gathered, idx is the number of items the list iterator of
\* "for token_address in self.monitor_tokens" has handed out, token the item
\* being scanned, found the opportunities list; snapshot and scanned are
\* history (the list when the pass began, the tokens it asked quotes for)
NoScan == [pc |-> "sleep", idx |-> 0, token |-> "", found |-> <<>>,
           price_a |-> NoneNum, price_b |-> NoneNum,
           snapshot |-> <<>>, scanned |-> <<>>, pair_scanned |-> FALSE]

\* __init__
ScanInit ==
  /\ monitor_tokens = <<WETH_ADDRESS>>
  /\ recent_opportunities = <<>>
  /\ scan = NoScan
  /\ scan_passes = 0
  /\ added = <<>>

\* _estimate_arbitrage_gas: building buy_path reads Config.WETH_ADDRESS inside
\* the try block; the except clause returns DEFAULT_GAS_LIMIT * 2.  (With the
\* attribute defined, a pair of failed estimates gives the same default.)
estimate_arbitrage_gas(token_address) ==
  IF Config_WETH_ADDRESS = "AttributeError" THEN DEFAULT_GAS_LIMIT * 2
  ELSE DEFAULT_GAS_LIMIT * 2

\* _get_gas_price, in gwei
scanner_get_gas_price ==
  IF gas_price = RpcError THEN FALLBACK_GAS_PRICE ELSE gas_price

\* dex_a.get_token_info(token_address)['symbol'], or "UNKNOWN"
scanner_token_symbol(token_address) ==
  IF token_address \in Tokens THEN Chain[token_address].symbol ELSE "UNKNOWN"

\* "abs(price_a - price_b) / min(price_a, price_b) * 100", as a fraction
Max(a, b) == IF a < b THEN b ELSE a
price_diff_pct_overMax(price_a, price_b) == [num |-> (Max(price_a, price_b) - Min(price_a, price_b)) * 100, den |-> Max(price_a, price_b)]
price_diff_pct(price_a, price_b) == [num |-> (Max(price_a, price_b) - Min(price_a, price_b)) * 100, den |-> Min(price_a, price_b)]

\* "if price_a < price_b": buy on DEX A, sell on DEX B
BuyOnDexA_reversed(price_a, price_b) == price_a > price_b
BuyOnDexA(price_a, price_b) == price_a < price_b

\* "is_executable = net_profit > 0.001"
IsExecutable_nonStrict(net_profit) == net_profit >= MIN_EXECUTABLE_PROFIT
IsExecutable(net_profit) == net_profit > MIN_EXECUTABLE_PROFIT

\* the body of the loop of _scan_dex_pair for one token and its two quotes:
\* the list of opportunities it appends (empty or one)
ScanQuotes(token_address, price_a, price_b, dex_a_name, dex_b_name, at) ==
  IF price_a = QuoteRaised \/ price_b = QuoteRaised THEN <<>>
  ELSE IF price_a = NoneNum \/ price_b = NoneNum THEN <<>>
  ELSE IF ~(price_a > 0 /\ price_b > 0) THEN <<>>
  ELSE
    LET pct == price_diff_pct(price_a, price_b)
        \* price_diff_pct > MIN_PROFIT_THRESHOLD
        above == pct.num * 1000 > MIN_PROFIT_THRESHOLD * pct.den
        buy_dex == IF BuyOnDexA(price_a, price_b) THEN dex_a_name ELSE dex_b_name
        sell_dex == IF BuyOnDexA(price_a, price_b) THEN dex_b_name ELSE dex_a_name
        buy_price == IF BuyOnDexA(price_a, price_b) THEN price_a ELSE price_b
        sell_price == IF BuyOnDexA(price_a, price_b) THEN price_b ELSE price_a
        gas_estimate == estimate_arbitrage_gas(token_address)
        gross_profit == (sell_price - buy_price) * TRADE_AMOUNT
        \* gas_estimate * gas_price / 1e18 ETH, gas_price in gwei
        gas_cost_eth == (gas_estimate * scanner_get_gas_price) \div 1000
        net_profit == gross_profit - gas_cost_eth
    IN
    IF ~above THEN <<>>
    ELSE <<[token_address |-> token_address,
            token_symbol |-> scanner_token_symbol(token_address),
            dex_a |-> buy_dex, dex_b |-> sell_dex,
            price_a |-> buy_price, price_b |-> sell_price,
            profit_percentage |-> pct,
            gas_estimate |-> gas_estimate, net_profit |-> net_profit,
            is_executable |-> IsExecutable(net_profit),
            discovered_at |-> at]>>

\* _scan_loop, lines 105-108: the opportunities of a pass that are kept
Profitable_spreadOnly(opp) == opp.profit_percentage.num * 1000 > MIN_PROFIT_THRESHOLD * opp.profit_percentage.den
Profitable(opp) ==
  /\ opp.profit_percentage.num * 1000 > MIN_PROFIT_THRESHOLD * opp.profit_percentage.den
  /\ opp.is_executable
ProfitableOpps(opportunities) == SelectSeq(opportunities, Profitable)

\* _scan_loop, lines 114-118: extend, then keep the last max_cache_size
LastN(q, n) == IF Len(q) <= n THEN q ELSE SubSeq(q, Len(q) - n + 1, Len(q))
CacheExtend_keepOldest(cache, opps) == SubSeq(cache \o opps, 1, Min(Len(cache \o opps), scanner_max_cache_size))
CacheExtend(cache, opps) == LastN(cache \o opps, scanner_max_cache_size)

\* the pass is over: back in _scan_loop the profitable opportunities go to the
\* cache and the loop sleeps SCAN_INTERVAL
PassEnds(sc) ==
  LET profitable_opps == ProfitableOpps(sc.found) IN
  /\ recent_opportunities' = IF profitable_opps = <<>> THEN recent_opportunities
                             ELSE CacheExtend(recent_opportunities, profitable_opps)
  /\ added' = added \o profitable_opps
  /\ scan' = [sc EXCEPT !.pc = "sleep"]

\* _scan_loop wakes and calls scan_arbitrage_opportunities: the one pair of
\* DEXes is scanned if the second one is available; _scan_dex_pair takes the
\* first token of the list and awaits its two quotes
ScanPassBegins(limit, availables) ==
  /\ scan.pc = "sleep"
  /\ scan_passes < limit
  /\ scan_passes' = scan_passes + 1
  /\ \E available \in availables :
       LET begun == [NoScan EXCEPT !.snapshot = monitor_tokens, !.pair_scanned = available] IN
       IF available /\ monitor_tokens # <<>>
       THEN /\ scan' = [begun EXCEPT !.pc = "quote", !.idx = 1, !.token = monitor_tokens[1]]
            /\ UNCHANGED <<recent_opportunities, added>>
       ELSE PassEnds(begun)
  /\ UNCHANGED <<monitor_tokens, execVars, monVars, loopVars, calcVars, envVars>>

\* _scan_dex_pair resumes with the two quotes of the token, runs the body and
\* asks the list iterator for the next token; when the iterator is exhausted
\* the pass ends
ScanToken(quotes_a, quotes_b) ==
  /\ scan.pc = "quote"
  /\ \E price_a \in quotes_a, price_b \in quotes_b :
       LET opps == ScanQuotes(scan.token, price_a, price_b, "kumbaya", "prismfi", scan_passes)
           sc == [scan EXCEPT !.found = @ \o opps, !.scanned = Append(@, scan.token),
                              !.price_a = price_a, !.price_b = price_b]
       IN
       IF scan.idx < Len(monitor_tokens)
       THEN /\ scan' = [sc EXCEPT !.idx = @ + 1, !.token = monitor_tokens[scan.idx + 1]]
            /\ UNCHANGED <<recent_opportunities, added>>
       ELSE PassEnds(sc)
  /\ UNCHANGED <<monitor_tokens, scan_passes, execVars, monVars, loopVars, calcVars, envVars>>

\* add_monitor_token(token_address)
AddMonitorToken(tokens) ==
  /\ \E token_address \in tokens :
       /\ \A i \in 1..Len(monitor_tokens) : monitor_tokens[i] # token_address
       /\ monitor_tokens' = Append(monitor_tokens, token_address)
  /\ UNCHANGED <<recent_opportunities, scan, scan_passes, added, execVars, monVars, loopVars, calcVars, envVars>>

\* remove_monitor_token(token_address): list.remove
RemoveMonitorToken(tokens) ==
  /\ \E i \in 1..Len(monitor_tokens) :
       /\ monitor_tokens[i] \in tokens
       /\ \A j \in 1..(i - 1) : monitor_tokens[j] # monitor_tokens[i]
       /\ monitor_tokens' = SubSeq(monitor_tokens, 1, i - 1)
                              \o SubSeq(monitor_tokens, i + 1, Len(monitor_tokens))
  /\ UNCHANGED <<recent_opportunities, scan, scan_passes, added, execVars, monVars, loopVars, calcVars, envVars>>

\* MultiDEXScanner.clear_cache()
ScannerClearCache ==
  /\ recent_opportunities # <<>>
  /\ recent_opportunities' = <<>>
  /\ added' = <<>>
  /\ UNCHANGED <<monitor_tokens, scan, scan_passes, execVars, monVars, loopVars, calcVars, envVars>>

\* get_recent_opportunities(limit): recent_opportunities[-limit:]
get_recent_opportunities(limit) ==
  IF limit = 0 \/ limit >= Len(recent_opportunities) THEN recent_opportunities
  ELSE SubSeq(recent_opportunities, Len(recent_opportunities) - limit + 1,
              Len(recent_opportunities))

\* max(executable_opps, key=lambda x: x.net_profit): max() keeps the first
\* item and replaces it only by a later item whose key is greater
KeyGreater_orEqual(opp, best) == opp.net_profit >= best.net_profit
KeyGreater(opp, best) == opp.net_profit > best.net_profit

\* the scan of max() from item i on, best being the item kept so far
RECURSIVE PyMaxFrom(_, _, _)
PyMaxFrom(opps, i, best) ==
  IF i > Len(opps) THEN best
  ELSE PyMaxFrom(opps, i + 1, IF KeyGreater(opps[i], best) THEN opps[i] ELSE best)

\* get_best_opportunity(): None, or the executable cached opportunity of
\* highest net profit
NoOpportunity == [token_address |-> "None"]
IsExecutableOpp(opp) == opp.is_executable /\ opp.net_profit > 0
get_best_opportunity ==
  LET executable_opps == SelectSeq(recent_opportunities, IsExecutableOpp) IN
  IF executable_opps = <<>> THEN NoOpportunity
  ELSE PyMaxFrom(executable_opps, 2, executable_opps[1])

NextScanner ==
  \/ ScanPassBegins(MaxPasses, BOOLEAN)
  \/ ScanToken(QuotesA, QuotesB)
  \/ AddMonitorToken(ScanTokens)
  \/ RemoveMonitorToken(ScanTokens)
  \/ ScannerClearCache

\* the cache filled past its capacity: every pass finds an executable
\* opportunity for each monitored token
NextOppCache ==
  \/ ScanPassBegins(scanner_max_cache_size + MaxOverflow, {TRUE})
  \/ ScanToken({1200}, {1000})
  \/ AddMonitorToken({"0xA1"})

NextMonitor ==
  \/ HandlePairCreated
  \/ SimulateLaunchDetection
  \/ MonitorClearCache

\* the state after construction of the executor and the monitor
NoCalc == [pc |-> "idle", amount_in |-> 0, token |-> "", s1 |-> 0, s2 |-> 0,
           out1 |-> 0, out2 |-> 0]
CalcInit == calc = NoCalc
\* ... and every collaborator of the executor answers
RestInit ==
  /\ LoopInit /\ ScanInit /\ CalcInit
  /\ create_trade_fails = FALSE /\ quote_fails = FALSE /\ estimate_gas_fails = FALSE
Init == ExecInit /\ MonInit /\ RestInit

SpecMonitor == Init /\ [][NextMonitor]_vars
SpecMonitorLoop == Init /\ [][NextMonitorLoop]_vars
SpecFilters == Init /\ [][NextFilters]_vars
SpecCallbacks == Init /\ [][NextCallbacks]_vars
SpecLaunchCache == Init /\ [][NextLaunchCache]_vars
SpecScanner == Init /\ [][NextScanner]_vars
SpecOppCache == Init /\ [][NextOppCache]_vars

\* the network gas price moves (between requests: the reads made for one
\* request come within moments of each other)
GasPriceMoves ==
  /\ \A t \in 1..MaxTasks : ~InFlight(t)
  /\ \E g \in GasPrices \ {gas_price} : gas_price' = g
  /\ UNCHANGED <<execution_queue, is_executing, execution_task, active_snipes,
                 snipe_results, max_gas_price, priority_fee_multiplier, tasks, trades, now,
                 submitted, started, cancelled_queued, done, monVars, restVars>>

Next ==
  \/ StartExecutor
  \/ StopExecutor
  \/ SubmitSnipe
  \/ CancelSnipe
  \/ GasPriceMoves
  \/ \E t \in 1..MaxTasks : LoopGet(t)
  \/ \E t \in 1..MaxTasks : ExecuteSnipeStep(t)
  \/ \E t \in 1..MaxTasks : CancelDelivered(t)

Spec == Init /\ [][Next]_vars

\* ------------------------------------- the gas settings and the prepared path
\* set_max_gas_price(max_gas_price)
SetMaxGasPrice ==
  /\ \E g \in GasCeilings \ {max_gas_price} : max_gas_price' = g
  /\ UNCHANGED <<execution_queue, is_executing, execution_task, active_snipes,
                 snipe_results, priority_fee_multiplier, tasks, trades, gas_price, now,
                 submitted, started, cancelled_queued, done, monVars, restVars>>

\* set_priority_fee_multiplier(multiplier)
SetPriorityFeeMultiplier ==
  /\ \E m \in Multipliers \ {priority_fee_multiplier} : priority_fee_multiplier' = m
  /\ UNCHANGED <<execution_queue, is_executing, execution_task, active_snipes,
                 snipe_results, max_gas_price, tasks, trades, gas_price, now,
                 submitted, started, cancelled_queued, done, monVars, restVars>>

\* "deadline = int(now + 300)  # 5 minutes" of build_swap_transaction: the
\* lifetime, in seconds, of the unsigned transaction handed to the signer
SWAP_DEADLINE_SECONDS == 300

\* the wall clock advances by one transaction lifetime while nothing is signed
ClockAdvances ==
  /\ now < 2 * SWAP_DEADLINE_SECONDS * TicksPerSecond
  /\ now' = now + SWAP_DEADLINE_SECONDS * TicksPerSecond
  /\ UNCHANGED <<execution_queue, is_executing, execution_task, active_snipes,
                 snipe_results, max_gas_price, priority_fee_multiplier, tasks, trades,
                 gas_price, submitted, started, cancelled_queued, done, monVars, restVars>>

\* The locals of _execute_snipe for a request that has come through the
\* liquidity and honeypot checks (pc "gas": the gas price check of
\* _pre_execution_checks is next) or through transaction construction
\* (pc "estimate_gas": line 208 is next), or whose path and amount have been
\* computed (pc "slippage": line 186 is next).
ExecutingAt(pc, req) ==
  IF pc = "gas"
  THEN [NoTask EXCEPT !.status = "alive", !.pc = pc, !.req = req,
                      !.begun_max_gas_price = MAX_GAS_PRICE, !.begun_multiplier = 12]
  ELSE IF pc = "slippage"
  THEN [NoTask EXCEPT !.status = "alive", !.pc = pc, !.req = req,
                      !.preflight = "passed",
                      !.symbol = Chain[req.token_address].symbol,
                      !.path = <<WETH_ADDRESS, req.token_address>>,
                      !.begun_max_gas_price = MAX_GAS_PRICE, !.begun_multiplier = 12]
  ELSE [NoTask EXCEPT !.status = "alive", !.pc = pc, !.req = req,
                      !.preflight = "passed",
                      !.symbol = Chain[req.token_address].symbol,
                      !.path = <<WETH_ADDRESS, req.token_address>>,
                      !.min_out = calculate_slippage(req.amount_eth * WeiPerCentiEther,
                                                     <<WETH_ADDRESS, req.token_address>>,
                                                     req.max_slippage_percent),
                      !.built = TRUE,
                      !.begun_max_gas_price = MAX_GAS_PRICE, !.begun_multiplier = 12]

\* the executor with its first request in flight at one of these two points,
\* the configuration still as constructed
InitPrepare ==
  /\ MonInit
  /\ RestInit
  /\ \E u \in Users, tok \in Tokens, a \in Amounts, sl \in Slippages, pc \in {"gas", "estimate_gas"} :
       LET req == SnipeRequest(u, tok, a, sl, 0, 1) IN
       /\ tasks = [t \in 1..MaxTasks |-> IF t = 1 THEN ExecutingAt(pc, req) ELSE NoTask]
       /\ active_snipes = DictSet(<<>>, RequestId(req), req)
  /\ execution_queue = <<>>
  /\ is_executing = TRUE
  /\ execution_task = 1
  /\ snipe_results = <<>>
  /\ max_gas_price = MAX_GAS_PRICE
  /\ priority_fee_multiplier = 12
  /\ trades = <<>>
  /\ gas_price \in GasPrices \cup {RpcError}
  /\ now = 0
  /\ submitted = 1
  /\ started = <<1>>
  /\ cancelled_queued = {}
  /\ done = NoDone

NextPrepare ==
  \/ \E t \in 1..MaxTasks : ExecuteSnipeStep(t)
  \/ SetMaxGasPrice
  \/ SetPriorityFeeMultiplier
  \/ ClockAdvances

SpecPrepare == InitPrepare /\ [][NextPrepare]_vars

\* ------------------------------------------------------------------------
\* the executor with its first request in flight at the gas check or at the
\* slippage computation, each collaborator answering or failing
InitLifecycle ==
  /\ \E u \in Users, tok \in Tokens, a \in Amounts, sl \in Slippages, pc \in {"gas", "slippage"} :
       LET req == SnipeRequest(u, tok, a, sl, 0, 1) IN
       /\ tasks = [t \in 1..MaxTasks |-> IF t = 1 THEN ExecutingAt(pc, req) ELSE NoTask]
       /\ active_snipes = DictSet(<<>>, RequestId(req), req)
  /\ execution_queue = <<>>
  /\ is_executing = TRUE
  /\ execution_task = 1
  /\ snipe_results = <<>>
  /\ max_gas_price = MAX_GAS_PRICE
  /\ priority_fee_multiplier = 12
  /\ trades = <<>>
  /\ gas_price \in GasPrices \cup {RpcError}
  /\ now = 0
  /\ submitted = 1
  /\ started = <<1>>
  /\ cancelled_queued = {}
  /\ done = NoDone
  /\ MonInit
  /\ LoopInit /\ ScanInit /\ CalcInit
  /\ create_trade_fails \in BOOLEAN
  /\ quote_fails \in BOOLEAN
  /\ estimate_gas_fails \in BOOLEAN

NextLifecycle ==
  \/ SubmitSnipe
  \/ \E t \in 1..MaxTasks : LoopGet(t)
  \/ \E t \in 1..MaxTasks : ExecuteSnipeStep(t)

SpecLifecycle == InitLifecycle /\ [][NextLifecycle]_vars

\* ------------------------------------------------------------------------
\* calculate_slippage called twice for the same amount and path, with two
\* slippage percentages, the router quote unchanged in between.  "0xB2" is a
\* token the router has no quote for.
SlipAmounts == {1, 3, 7, 10}
SlipTokens == Tokens \cup {"0xB2"}
SlippagePercents == {0, 1, 5, 33, 50, 99, 100}

InitSlippage ==
  /\ ExecInit
  /\ MonInit
  /\ LoopInit
  /\ ScanInit
  /\ create_trade_fails = FALSE /\ quote_fails = FALSE /\ estimate_gas_fails = FALSE
  /\ \E a \in SlipAmounts, tok \in SlipTokens, s1 \in SlippagePercents, s2 \in SlippagePercents :
       calc = [NoCalc EXCEPT !.pc = "first", !.amount_in = a, !.token = tok,
                             !.s1 = s1, !.s2 = s2]

CalculateSlippageFirst ==
  /\ calc.pc = "first"
  /\ calc' = [calc EXCEPT !.pc = "second",
                          !.out1 = calculate_slippage(calc.amount_in, <<WETH_ADDRESS, calc.token>>, calc.s1)]
  /\ UNCHANGED <<execVars, monVars, loopVars, scanVars, envVars>>

CalculateSlippageSecond ==
  /\ calc.pc = "second"
  /\ calc' = [calc EXCEPT !.pc = "done",
                          !.out2 = calculate_slippage(calc.amount_in, <<WETH_ADDRESS, calc.token>>, calc.s2)]
  /\ UNCHANGED <<execVars, monVars, loopVars, scanVars, envVars>>

NextSlippage ==
  \/ CalculateSlippageFirst
  \/ CalculateSlippageSecond

SpecSlippage == InitSlippage /\ [][NextSlippage]_vars

\* ------------------------------------------------------------------------
\* The scanner over a wider range of quotes and gas prices: equal quotes, a
\* spread in either direction, a spread whose net profit is exactly the
\* executable minimum, a price query that answers None or raises.
ScanGasPrices == {1, 30}              \* gwei read by _get_gas_price
WideQuotesA == {1000, 1016, 1050}
WideQuotesB == {NoneNum, QuoteRaised, 1000, 1016, 1050}

InitQuotes ==
  /\ execution_queue = <<>>
  /\ is_executing = FALSE
  /\ execution_task = 0
  /\ active_snipes = <<>>
  /\ snipe_results = <<>>
  /\ max_gas_price = MAX_GAS_PRICE
  /\ priority_fee_multiplier = 12
  /\ tasks = [t \in 1..MaxTasks |-> NoTask]
  /\ trades = <<>>
  /\ gas_price \in ScanGasPrices
  /\ now = 0
  /\ submitted = 0
  /\ started = <<>>
  /\ cancelled_queued = {}
  /\ done = NoDone
  /\ MonInit
  /\ RestInit

NextQuotes ==
  \/ ScanPassBegins(MaxPasses, {TRUE})
  \/ ScanToken(WideQuotesA, WideQuotesB)
  \/ AddMonitorToken({"0xA1"})

SpecQuotes == InitQuotes /\ [][NextQuotes]_vars


\* ================================================================ claims
PendingUids ==
  QueuedUids \cup {tasks[t].req.uid : t \in {u \in 1..MaxTasks : InFlight(u)}}

\* C1: the recent-launch cache never holds two entries with the same pair
\* address, and get_recent_launches exposes at most one launch per pair.
C1_NoDuplicatePairs ==
  /\ \A i, j \in 1..Len(recent_launches) :
       i # j => recent_launches[i].pair_address # recent_launches[j].pair_address
  /\ LET shown == get_recent_launches(20) IN
     \A i, j \in 1..Len(shown) : i # j => shown[i].pair_address # shown[j].pair_address

\* C2: once _execute_snipe has returned for a dequeued request (prepared,
\* rejected, build failure or exception), get_snipe_status of its request id
\* no longer answers not-found.
C2_FinishedRequestHasStatus ==
  done # NoDone => get_snipe_status(done.request_id) # NotFound

\* C3: a request cancelled while it was still waiting in the queue is never
\* afterwards taken into processing by the loop.
C3_CancelledNeverProcessed ==
  \A t \in 1..MaxTasks : InFlight(t) => tasks[t].req.uid \notin cancelled_queued

\* C4: no submit step enqueues a request, or replaces the active-set entry,
\* under a request id whose earlier request is still queued or in flight.
C4_DuplicateKeyRejected ==
  [][\A k \in Keys :
       active_snipes[k].uid \in PendingUids =>
         /\ k \in DOMAIN active_snipes' => active_snipes'[k] = active_snipes[k]
         /\ \A i \in 1..Len(execution_queue') :
              RequestId(execution_queue'[i]) = k => execution_queue'[i].uid <= submitted]_vars

\* C5: the queue has a capacity at which submit fails with Overloaded: below
\* the number of submissions explored, the queue never holds all of them.
C5_QueueBounded ==
  Len(execution_queue) < MaxSubmits

\* C6: processing starts in submission order: the i-th request whose
\* processing starts is the i-th request submitted.
C6_FifoOrder ==
  \A i \in 1..Len(started) : started[i] = i
C6_Witness ==
  /\ Len(started) >= 2
  /\ \E t \in 1..MaxTasks : InFlight(t) /\ tasks[t].req.uid = 2

\* C7: at most one loop task is executing a request (dequeued it, has not
\* finished it and will still run code of _execute_snipe; a task that
\* stop_executor cancelled only unwinds with CancelledError).  The witness is
\* a second task, created by a restart, executing a request while another
\* request waits in the queue.
C7_SingleFlight ==
  Cardinality({t \in 1..MaxTasks : InFlight(t)}) <= 1
C7_Witness ==
  /\ InFlight(2)
  /\ tasks[1].status # "none"
  /\ execution_queue # <<>>

\* C8: a request rejected by preflight has a status, and its reason names the
\* check that failed.
SpecificReasons == {"Insufficient liquidity", "Potential honeypot detected", "Gas price too high"}
C8_RejectionReported ==
  (done # NoDone /\ done.preflight = "failed") =>
     /\ get_snipe_status(done.request_id) # NotFound
     /\ get_snipe_status(done.request_id).result.error_message \in SpecificReasons

\* C9: for a request whose preflight failed, no transaction was built and no
\* pending trade row was written.
C9_RejectedBuildsNothing ==
  (done # NoDone /\ done.preflight = "failed") =>
     /\ ~done.built
     /\ ~done.persisted
     /\ \A i \in 1..Len(trades) : trades[i].uid # done.uid
C9_Witness ==
  /\ done # NoDone
  /\ done.preflight = "failed"
  /\ done.req.token_address = "0xC3"
  /\ done.outcome = "rejected"

\* C10: a request whose token has liquidity of at least half the notional and
\* loses at most 10% on a round trip, processed while the gas price is at or
\* below the ceiling, ends prepared: a pending trade row and a status exist.
GoodRequest(req) ==
  /\ Chain[req.token_address].reserve_eth >= (req.amount_eth \div 2) * WeiPerCentiEther
  /\ 100 - Chain[req.token_address].back_pct <= 10
C10_GoodRequestPrepared ==
  (done # NoDone /\ GoodRequest(done.req) /\ done.gas_ok) =>
     /\ done.outcome = "prepared"
     /\ \E i \in 1..Len(trades) : trades[i].uid = done.uid /\ trades[i].status = "pending"
     /\ get_snipe_status(done.request_id) # NotFound

C12_CancelFinishedNoEffect ==
  [][\A k \in Keys :
       (done # NoDone /\ active_snipes[k].uid = done.uid) =>
          k \in DOMAIN active_snipes']_vars

C13_LaunchCacheBounded ==
  /\ [](Len(recent_launches) <= max_cache_size)
  /\ [][(recent_launches' # recent_launches /\ recent_launches' # <<>>) =>
          LET n == Len(recent_launches') IN
          SubSeq(recent_launches', 1, n - 1) =
            SubSeq(recent_launches, Len(recent_launches) - n + 2, Len(recent_launches))]_vars

\* C15: a start_monitoring call made while is_monitoring is set creates no
\* task and leaves the task handle, the flag, the caches, the filters and
\* the callbacks as they were.
C15_StartWhileRunningNoOp ==
  [][(mon_starts' # mon_starts /\ is_monitoring) =>
       UNCHANGED <<is_monitoring, monitor_task, mon_tasks, monVars>>]_vars
C15_Witness ==
  /\ is_monitoring
  /\ mon_starts > Cardinality({t \in 1..MaxMonTasks : mon_tasks[t].kind = "loop"})

\* C16: once stop_monitoring has returned, and until start_monitoring is
\* called again, no _monitor_loop task is still pending (in its backoff
\* sleep or about to re-subscribe).
C16_StopWaitsForLoop ==
  stop_returned =>
    \A t \in 1..MaxMonTasks : ~(mon_tasks[t].kind = "loop" /\ Pending(t))

\* C14: the recent-opportunities cache never holds more than its capacity,
\* and holds exactly the last (at most capacity) opportunities added, in the
\* order they were added.
C14_OppCacheKeepsLastN ==
  /\ Len(recent_opportunities) <= scanner_max_cache_size
  /\ Len(get_recent_opportunities(0)) <= scanner_max_cache_size
  /\ recent_opportunities = LastN(added, scanner_max_cache_size)
C14_Witness ==
  /\ Len(added) > scanner_max_cache_size
  /\ Len(recent_opportunities) = scanner_max_cache_size
  /\ recent_opportunities[1].discovered_at # added[1].discovered_at

\* C17: when a pass that scanned the pair of DEXes is over, the tokens it
\* asked quotes for are exactly the tokens monitored when the pass began, in
\* that order.
C17_PassScansSnapshot ==
  (scan.pc = "sleep" /\ scan.pair_scanned) => scan.scanned = scan.snapshot

\* C20: the step that ends a pass leaves every opportunity the pass discovered,
\* executable or not, in the recent-opportunities cache.
C20_DiscoveredAreCached ==
  [][(scan' # scan /\ scan'.pc = "sleep") =>
       \A i \in 1..Len(scan'.found) :
         \E j \in 1..Len(recent_opportunities') :
           recent_opportunities'[j] = scan'.found[i]]_vars

\* every opportunity the scanner holds: those of the pass and those cached
Opportunities ==
  {scan.found[i] : i \in 1..Len(scan.found)}
    \cup {recent_opportunities[i] : i \in 1..Len(recent_opportunities)}

\* C21: every opportunity the scanner creates is executable if and only if
\* its net profit is strictly greater than the minimum executable profit
\* (0.001 ETH), whatever its percentage spread.
C21_ExecutableIffAboveFloor ==
  \A opp \in Opportunities :
    opp.is_executable <=> (opp.net_profit > MIN_EXECUTABLE_PROFIT)
\* one pass holds an executable opportunity and one whose net profit is
\* exactly the minimum, which is not executable
C21_Witness ==
  \E i, j \in 1..Len(scan.found) :
    /\ scan.found[i].is_executable
    /\ scan.found[j].net_profit = MIN_EXECUTABLE_PROFIT
    /\ ~scan.found[j].is_executable

\* C22: every opportunity created from two different positive quotes has the
\* DEX with the smaller quote as its buy side (dex_a, price_a) and the DEX
\* with the larger quote as its sell side (dex_b, price_b), so price_a is
\* less than price_b in every recorded opportunity.
C22_BuySideIsCheaper ==
  /\ [](\A opp \in Opportunities : opp.price_a < opp.price_b)
  /\ [][Len(scan'.found) = Len(scan.found) + 1 =>
          LET opp == scan'.found[Len(scan'.found)]
              a_cheaper == scan'.price_a < scan'.price_b
          IN /\ opp.price_a = Min(scan'.price_a, scan'.price_b)
             /\ opp.price_b = Max(scan'.price_a, scan'.price_b)
             /\ opp.dex_a = (IF a_cheaper THEN "kumbaya" ELSE "prismfi")
             /\ opp.dex_b = (IF a_cheaper THEN "prismfi" ELSE "kumbaya")]_vars
\* one pass created an opportunity that buys on each DEX
C22_Witness ==
  \E i, j \in 1..Len(scan.found) :
    /\ scan.found[i].dex_a = "kumbaya"
    /\ scan.found[j].dex_a = "prismfi"

\* C23: get_best_opportunity returns nothing when no cached entry is
\* executable; otherwise it returns the cached executable entry of greatest
\* net profit, and of several with that net profit the earliest discovered
\* (the first of them in the cache).
C23_BestOpportunity ==
  LET best == get_best_opportunity
      executable == {i \in 1..Len(recent_opportunities) : recent_opportunities[i].is_executable}
  IN
  IF executable = {} THEN best = NoOpportunity
  ELSE \E i \in executable :
         /\ recent_opportunities[i] = best
         /\ \A j \in executable :
              /\ recent_opportunities[j].net_profit <= best.net_profit
              /\ recent_opportunities[j].net_profit = best.net_profit => i <= j
\* the greatest net profit is shared by two cached entries discovered in
\* different passes, neither of them the first entry of the cache
C23_Witness ==
  \E i, j \in 2..Len(recent_opportunities) :
    /\ i < j
    /\ recent_opportunities[i] = get_best_opportunity
    /\ recent_opportunities[j].net_profit = recent_opportunities[i].net_profit
    /\ recent_opportunities[j].discovered_at > recent_opportunities[i].discovered_at
    /\ recent_opportunities[1].net_profit < recent_opportunities[i].net_profit

\* C24: a token whose quote is unavailable (None) or raised is skipped
\* without aborting the pass: when the pass ends on such a token, every
\* other token the pass set out to scan has been evaluated.
C24_SkipDoesNotAbortPass ==
  [][(scan.pc = "quote" /\ scan'.pc = "sleep"
        /\ (scan'.price_a \in {NoneNum, QuoteRaised} \/ scan'.price_b \in {NoneNum, QuoteRaised})) =>
       \A i \in 1..Len(scan'.snapshot) :
         \E j \in 1..Len(scan'.scanned) : scan'.scanned[j] = scan'.snapshot[i]]_vars

\* Scenario A: the step of a pass that gathered the quotes 1.00 and 1.05 (in
\* milli-ETH, on either DEX), and what that step must record given the
\* percentage spread it should report, as a range of hundredths of a percent
ScenarioA_Step == scan.pc = "quote" /\ scan'.scanned # scan.scanned /\ {scan'.price_a, scan'.price_b} = {1000, 1050}
ScenarioA_Records(pct_low, pct_high) ==
  /\ Len(scan'.found) = Len(scan.found) + 1
  /\ LET opp == scan'.found[Len(scan'.found)]
         gas_cost == (opp.gas_estimate * gas_price) \div 1000
     IN /\ pct_low * opp.profit_percentage.den <= 100 * opp.profit_percentage.num
        /\ 100 * opp.profit_percentage.num <= pct_high * opp.profit_percentage.den
        /\ opp.dex_a = (IF scan'.price_a = 1000 THEN "kumbaya" ELSE "prismfi")
        /\ opp.price_a = 1000
        /\ opp.net_profit = 50 * TRADE_AMOUNT - gas_cost
        /\ opp.net_profit > MIN_EXECUTABLE_PROFIT => opp.is_executable

\* C25 as stated: for quotes 1.00 on X and 1.05 on Y with probe notional 0.1
\* the scanner records a spread of about 4.76% (between 4.70% and 4.80%), buy
\* side X, net profit 0.1 x 0.05 less the gas cost, and executable when that
\* exceeds the executable floor.
C25_ScenarioA_Stated ==
  [][ScenarioA_Step => ScenarioA_Records(470, 480)]_vars

\* C25 amended: the same, with a spread of exactly 5.00%
\* (|pA - pB| / min(pA, pB) x 100).
C25_ScenarioA ==
  [][ScenarioA_Step => ScenarioA_Records(500, 500)]_vars
\* the scenario at a gas price of 1 gwei, with the cheaper quote on the
\* second DEX: an executable opportunity that buys there
C25_Witness ==
  /\ gas_price = 1
  /\ scan.price_a = 1050 /\ scan.price_b = 1000
  /\ scan.found # <<>>
  /\ scan.found[Len(scan.found)].dex_a = "prismfi"
  /\ scan.found[Len(scan.found)].price_b = 1050
  /\ scan.found[Len(scan.found)].is_executable

\* the address is the base (wrapped native) address, in any letter case
IsBase(a) == Lower(a) = Lower(WETH_ADDRESS)

\* C26: a pair-created event is accepted only if exactly one side of the
\* pair is the base address: every cached entry that came from an event has
\* one base side and one other side, and its new token is the other side.
C26_ExactlyOneBaseSide ==
  \A i \in 1..Len(recent_launches) :
    LET launch == recent_launches[i] IN
    launch.transaction_hash = "0xT1" =>
      /\ IsBase(launch.token0) # IsBase(launch.token1)
      /\ launch.token_address = (IF IsBase(launch.token0) THEN launch.token1 ELSE launch.token0)

\* C27: an event is cached or notified only if its new token is not in the
\* blacklist and, when the whitelist is not empty, is in the whitelist,
\* both compared without regard to letter case.
C27_FiltersIgnoreCase ==
  [][(recent_launches' # recent_launches \/ notified' # notified) =>
       /\ Len(recent_launches') = Len(recent_launches) + 1
       /\ LET new_token == recent_launches'[Len(recent_launches')].token_address IN
          /\ \A t \in blacklisted_tokens : Lower(t) # Lower(new_token)
          /\ whitelisted_tokens # {} =>
               \E t \in whitelisted_tokens : Lower(t) = Lower(new_token)]_vars
\* an event naming the token in capitals was accepted through a whitelist
\* that holds it, the other token being blacklisted, and the observer was told
C27_Witness ==
  /\ blacklisted_tokens = {"0xc3"}
  /\ whitelisted_tokens = {"0xa1"}
  /\ recent_launches # <<>>
  /\ recent_launches[Len(recent_launches)].token_address = "0xA1"
  /\ notified # <<>>

Limits == 0..(MaxEvents + 1)

\* C29: get_recent_launches(limit) returns, for every limit >= 0, the last
\* min(limit, cache size) cached events, oldest first.
C29_RecentLaunchesLastN ==
  \A limit \in Limits :
    LET n == Min(limit, Len(recent_launches)) IN
    get_recent_launches(limit)
      = SubSeq(recent_launches, Len(recent_launches) - n + 1, Len(recent_launches))

\* C30: for the same quoted output and slippage percentages s1 < s2 in
\* [0, 100], the minimum output computed for s2 is at most the one computed
\* for s1.
C30_SlippageMonotone ==
  (calc.pc = "done" /\ calc.s1 < calc.s2) => calc.out2 <= calc.out1
\* a quote of 21 at 5% and at 33%: 19 and 14
C30_Witness ==
  /\ calc.pc = "done"
  /\ calc.amount_in = 3 /\ calc.s1 = 5 /\ calc.s2 = 33
  /\ calc.out1 = 19 /\ calc.out2 = 14

C36_ActiveSnipesAreUnfinished ==
  done # NoDone =>
    \A request_id \in Keys : active_snipes[request_id].uid # done.uid

\* the monitor's tasks of one kind that have not ended and have not been
\* cancelled
AliveMonTasks(kind) == {t \in 1..MaxMonTasks : mon_tasks[t].kind = kind /\ Pending(t) /\ ~mon_tasks[t].cancel}

\* C34: at most one _monitor_loop task and at most one _watch_events task
\* are alive at a time.
C34_OneLoopOneWatcher ==
  /\ Cardinality(AliveMonTasks("loop")) <= 1
  /\ Cardinality(AliveMonTasks("watch")) <= 1

\* request ids a caller may ask about: the requester of the model and one
\* who never submitted, at every second of the run
AskedIds == {<<"snipe", u, sec>> : u \in Users \cup {8}, sec \in 0..MaxTick}

\* C31: get_snipe_status of an id that was never submitted returns the
\* not-found indication (None), not an exception.  (No request is cancelled
\* in this specification, so the submitted ids are the keys of active_snipes.)
C31_UnknownIdNotFound ==
  \A request_id \in AskedIds \ Keys : get_snipe_status(request_id) = NotFound
\* the submitted request has a stored result and other ids are asked about
C31_Witness ==
  /\ \E request_id \in Keys : get_snipe_status(request_id) # NotFound
  /\ AskedIds \ Keys # {}

\* C32: an exception raised while one request is processed does not end the
\* consuming loop: while the executor is running, the loop task is alive
\* after the failed request (back at the queue, so a request waiting in the
\* queue is the next thing it takes).
C32_LoopSurvivesException ==
  (done # NoDone /\ done.outcome = "exception" /\ is_executing)
    => /\ tasks[execution_task].status = "alive"
       /\ ~tasks[execution_task].cancel
       /\ (tasks[execution_task].pc = "wait" \/ tasks[execution_task].req.uid > done.uid)
\* the first request ended in the exception handler and the request
\* submitted after it has been dequeued
C32_Witness ==
  /\ done # NoDone /\ done.uid = 1 /\ done.outcome = "exception"
  /\ started = <<1, 2>>

\* C33: when create_trade fails, the request being prepared still ends as
\* prepared, and its result is stored and returned by get_snipe_status.
C33_StorageFailureDoesNotBlock ==
  [][\A t \in 1..MaxTasks :
       (InFlight(t) /\ tasks[t].pc = "persist" /\ create_trade_fails /\ tasks'[t] # tasks[t])
         => /\ done'.uid = tasks[t].req.uid
            /\ done'.outcome = "prepared"
            /\ RequestId(tasks[t].req) \in DOMAIN snipe_results'
            /\ snipe_results'[RequestId(tasks[t].req)] = done'.result
            /\ done'.result.success]_vars
\* a request was prepared while the database was failing: no row, a result
C33_Witness ==
  /\ create_trade_fails
  /\ done # NoDone /\ done.outcome = "prepared"
  /\ trades = <<>>
  /\ get_snipe_status(done.request_id) = [found |-> TRUE, result |-> done.result]

C37_StoredResultsSucceeded ==
  /\ \A k \in DOMAIN snipe_results : snipe_results[k].success
  /\ get_execution_stats.total_snipes > 0
       => get_execution_stats.success_rate.num = get_execution_stats.success_rate.den
\* a result is stored and the request processed after it was rejected
C37_Witness ==
  /\ get_execution_stats.total_snipes > 0
  /\ done # NoDone /\ done.uid = 2 /\ ~done.result.success

====
